---------------------------- MODULE Spec2Model ----------------------------
(***************************************************************************)
(* Model of the stock scanner in src/main.py: symbol normalisation,        *)
(* universe resolution, the per-symbol Fetch -> Augment -> Evaluate        *)
(* pipeline and the thread-pool scan with its final sort.                  *)
(*                                                                         *)
(* Python values are records: a str is [type |-> "str", s |-> <<chars>>],  *)
(* None is PyNone, any other object carries its own type name.  A float is *)
(* [nan |-> BOOLEAN, v |-> Int]; comparisons with NaN are false as in      *)
(* IEEE-754.                                                               *)
(***************************************************************************)
EXTENDS Integers, Sequences, FiniteSets, Bags, TLC

VARIABLES
    \* clean_symbol(raw) on one raw ticker
    raw, cleaned, npc,
    \* get_all_tickers() against one answer of the listing source
    listing, tickers, tlogged, tpc,
    \* process_stock(symbol) for one symbol, stage by stage
    pc, inp, df, signals, score, vol_ratio, result, logged, calls,
    \* scan_market() and main()
    symbols, mainpc, futures, finished, waiterQ, completion,
    collected, opportunities

nvars == <<raw, cleaned, npc>>
tvars == <<listing, tickers, tlogged, tpc>>
pvars == <<pc, inp, df, signals, score, vol_ratio, result, logged, calls>>
svars == <<symbols, mainpc, futures, finished, waiterQ, completion,
           collected, opportunities>>
vars == <<nvars, tvars, pvars, svars>>

-----------------------------------------------------------------------------
(* Bounds of the model.                                                     *)

\* longest raw ticker string fed to clean_symbol
MaxLen == 3
\* longest Symbol column returned by the listing source
MaxList == 2
\* most missing OHLCV cells in a fetched frame
MaxMissing == 3
\* indicator values range over 0..MaxLevel around the reference level 1
MaxLevel == 2
\* last-bar volumes range over 0..MaxVolume
MaxVolume == 3
\* largest universe handed to the thread pool
MaxSymbols == 3

-----------------------------------------------------------------------------
(* Python values.                                                           *)

PyNone == [type |-> "NoneType", s |-> <<>>]
PyStr(s) == [type |-> "str", s |-> s]
\* a non-string cell of the Symbol column (pandas gives float nan for a blank)
PyNaN == [type |-> "float", s |-> <<>>]
\* Python truthiness of a str or None: None and "" are falsy
Truthy(v) == v.type = "str" /\ v.s # <<>>

-----------------------------------------------------------------------------
(* str.strip, str.upper and the regular expressions of is_valid_symbol.     *)

Whitespace == {" "}
LowerSeq == <<"a", "b", "c", "d", "e", "f", "g", "h", "i", "j", "k", "l", "m",
              "n", "o", "p", "q", "r", "s", "t", "u", "v", "w", "x", "y", "z">>
UpperSeq == <<"A", "B", "C", "D", "E", "F", "G", "H", "I", "J", "K", "L", "M",
              "N", "O", "P", "Q", "R", "S", "T", "U", "V", "W", "X", "Y", "Z">>
UpperLetters == {UpperSeq[i] : i \in DOMAIN UpperSeq}
Digits == {"0", "1", "2", "3", "4", "5", "6", "7", "8", "9"}

UpperChar(c) ==
    IF \E i \in DOMAIN LowerSeq : LowerSeq[i] = c
    THEN UpperSeq[CHOOSE i \in DOMAIN LowerSeq : LowerSeq[i] = c]
    ELSE c
Upper(s) == [i \in 1..Len(s) |-> UpperChar(s[i])]

RECURSIVE LStrip(_)
LStrip(s) == IF s # <<>> /\ Head(s) \in Whitespace THEN LStrip(Tail(s)) ELSE s
RECURSIVE RStrip(_)
RStrip(s) ==
    IF s # <<>> /\ s[Len(s)] \in Whitespace
    THEN RStrip(SubSeq(s, 1, Len(s) - 1))
    ELSE s
Strip(s) == RStrip(LStrip(s))

Contains(s, cs) == \E i \in 1..Len(s) : s[i] \in cs
EndsWith(s, suf) ==
    /\ Len(s) >= Len(suf)
    /\ SubSeq(s, Len(s) - Len(suf) + 1, Len(s)) = suf

\* re.search(invalid_patterns[p], s), patterns numbered as in the list
Matches(p, s) ==
    CASE p = 1 -> Contains(s, {"$"})                             \* \$
      [] p = 2 -> EndsWith(s, <<".", "W">>)                       \* \.W$
      [] p = 3 -> EndsWith(s, <<".", "U">>)                       \* \.U$
      [] p = 4 -> s # <<>> /\ s[Len(s)] \in Digits                \* \d+$
      [] p = 5 -> EndsWith(s, <<".", "W", "S">>)                  \* \.WS$
      [] p = 6 -> EndsWith(s, <<".", "R", "T">>)                  \* \.RT$
      [] p = 7 -> EndsWith(s, <<".", "P", "W">>)                  \* \.PW$
      [] p = 8 -> /\ Len(s) >= 2                                  \* [A-Z]+W$
                  /\ s[Len(s)] = "W"
                  /\ s[Len(s) - 1] \in UpperLetters
      [] p = 9 -> Contains(s, {"."})                              \* \.
      [] p = 10 -> Contains(s, {"^", "$", "."})                   \* [\^\$\.]

\* line 21: the ten patterns (variant: [A-Z]+W$ left out)
invalid_patterns_no_w == (1..10) \ {8}
invalid_patterns == 1..10

is_valid_symbol(symbol) ==
    /\ symbol.type = "str"
    /\ ~ \E p \in invalid_patterns : Matches(p, symbol.s)

clean_symbol(symbol) ==
    IF symbol.type = "str"
    THEN LET sym == PyStr(Upper(Strip(symbol.s)))
         IN  IF is_valid_symbol(sym) THEN sym ELSE PyNone
    ELSE PyNone

-----------------------------------------------------------------------------
(* get_all_tickers.                                                         *)

reliable_symbols ==
    << <<"A", "A", "P", "L">>, <<"M", "S", "F", "T">>, <<"G", "O", "O", "G", "L">>,
       <<"A", "M", "Z", "N">>, <<"M", "E", "T", "A">>, <<"N", "V", "D", "A">>,
       <<"T", "S", "L", "A">>, <<"J", "P", "M">>, <<"V">>, <<"W", "M", "T">>,
       <<"P", "G">>, <<"M", "A">>, <<"H", "D">>, <<"B", "A", "C">>,
       <<"D", "I", "S">>, <<"C", "S", "C", "O">>, <<"V", "Z">>, <<"K", "O">> >>

Range(f) == {f[i] : i \in DOMAIN f}

\* all_symbols = list(set(sp500_symbols + reliable_symbols)): the set removes
\* equal entries only, before any of them is cleaned
all_symbols(sp500_symbols) ==
    Range(sp500_symbols) \cup {PyStr(s) : s \in Range(reliable_symbols)}

\* valid_symbols, as a bag: list(set(..)) iterates in an unspecified order,
\* so the list is kept up to the order of its elements
valid_symbols(all) ==
    LET kept == {e \in all : Truthy(clean_symbol(e))}
    IN  [s \in {clean_symbol(e).s : e \in kept} |->
            Cardinality({e \in kept : clean_symbol(e).s = s})]

\* resp is what pd.read_html(...)[0]['Symbol'].tolist() does: it raises, or
\* it returns the Symbol column.  The record holds the return value and the
\* function that logged an error, if any.
\* (variant: the except branch falls back on the seed list)
get_all_tickers_seed_fallback(resp) ==
    IF resp.raises
    THEN [ret |-> valid_symbols(all_symbols(<<>>)), logged |-> "get_all_tickers"]
    ELSE [ret |-> valid_symbols(all_symbols(resp.symbols)), logged |-> ""]
get_all_tickers(resp) ==
    IF resp.raises
    THEN [ret |-> EmptyBag, logged |-> "get_all_tickers"]  \* except: return []
    ELSE [ret |-> valid_symbols(all_symbols(resp.symbols)), logged |-> ""]

-----------------------------------------------------------------------------
(* Floats as pandas/numpy hold them.                                        *)

NaN == [nan |-> TRUE, v |-> 0]
Num(v) == [nan |-> FALSE, v |-> v]
Gt(a, b) == ~a.nan /\ ~b.nan /\ a.v > b.v
Lt(a, b) == ~a.nan /\ ~b.nan /\ a.v < b.v
Le(a, b) == ~a.nan /\ ~b.nan /\ a.v <= b.v

\* numpy float64 division: x/0 is inf, 0/0 and anything with NaN is NaN
\* (a RuntimeWarning, not an exception); volumes are never negative
FDiv(a, b) ==
    IF a.nan \/ b.nan THEN [kind |-> "nan", n |-> 0, d |-> 1]
    ELSE IF b.v = 0
         THEN IF a.v = 0 THEN [kind |-> "nan", n |-> 0, d |-> 1]
                         ELSE [kind |-> "inf", n |-> 1, d |-> 0]
         ELSE [kind |-> "num", n |-> a.v, d |-> b.v]
\* ratio > k for an integer k and a positive denominator
RatioGt(r, k) == r.kind = "inf" \/ (r.kind = "num" /\ r.n > k * r.d)
NoRatio == [kind |-> "unset", n |-> 0, d |-> 1]

-----------------------------------------------------------------------------
(* get_stock_data, calculate_technical_indicators, analyze_stock.           *)

None == [isNone |-> TRUE]

\* resp is what yf.Ticker(symbol).history(period) does: it raises, or it
\* returns a frame of resp.bars rows in which resp.missing cells of the
\* Open/High/Low/Close/Volume columns are NaN.  len(df) * 0.1 is a float;
\* an integer count exceeds it exactly when ten times the count exceeds len.
get_stock_data(resp) ==
    IF resp.raises
    THEN [ret |-> None, logged |-> "get_stock_data"]
    ELSE IF resp.bars < 20 \/ resp.missing * 10 > resp.bars
         THEN [ret |-> None, logged |-> ""]
         ELSE [ret |-> [isNone |-> FALSE, len |-> resp.bars], logged |-> ""]

\* ind is what the ta library and pandas compute on df: they raise, or they
\* give the indicator columns, of which the model keeps the two rows read by
\* analyze_stock (df.iloc[-1] and df.iloc[-2])
calculate_technical_indicators(d, ind) ==
    IF ind.raises
    THEN [ret |-> None, logged |-> "calculate_technical_indicators"]
    ELSE [ret |-> [isNone |-> FALSE, len |-> d.len,
                   last_row |-> ind.last_row, prev_row |-> ind.prev_row],
          logged |-> ""]

SIG_RSI_OVERSOLD == "RSI en zona de sobreventa"
SIG_RSI_NEAR == "RSI aproximandose a sobreventa"
SIG_MACD == "Cruce MACD alcista"
SIG_BB == "Precio por debajo de banda inferior de Bollinger"
SIG_SMA == "Cruce alcista de medias moviles"
\* the text carries the ratio to one decimal; the ratio itself is vol_ratio
SIG_VOL == "Volumen x sobre la media"

\* lines 84-89: the two RSI bands, one if/elif
RsiStep(last_row, st) ==
    IF Le(Num(20), last_row.RSI) /\ Le(last_row.RSI, Num(30))
    THEN [signals |-> Append(st.signals, SIG_RSI_OVERSOLD), score |-> st.score + 3]
    ELSE IF Lt(Num(30), last_row.RSI) /\ Le(last_row.RSI, Num(40))
         THEN [signals |-> Append(st.signals, SIG_RSI_NEAR), score |-> st.score + 1]
         ELSE st
\* lines 90-92 (variant: the previous bar must be strictly below)
MacdStep_strict(last_row, prev_row, st) ==
    IF Gt(last_row.MACD, last_row.MACD_Signal)
       /\ Lt(prev_row.MACD, prev_row.MACD_Signal)
    THEN [signals |-> Append(st.signals, SIG_MACD), score |-> st.score + 2]
    ELSE st
MacdStep(last_row, prev_row, st) ==
    IF Gt(last_row.MACD, last_row.MACD_Signal)
       /\ Le(prev_row.MACD, prev_row.MACD_Signal)
    THEN [signals |-> Append(st.signals, SIG_MACD), score |-> st.score + 2]
    ELSE st
\* lines 93-95
BollingerStep(last_row, st) ==
    IF Lt(last_row.Close, last_row.BB_Low)
    THEN [signals |-> Append(st.signals, SIG_BB), score |-> st.score + 2]
    ELSE st
\* lines 96-98
SmaStep(last_row, prev_row, st) ==
    IF Gt(last_row.SMA_20, last_row.SMA_50)
       /\ Le(prev_row.SMA_20, prev_row.SMA_50)
    THEN [signals |-> Append(st.signals, SIG_SMA), score |-> st.score + 2]
    ELSE st
\* lines 100-102
VolumeStep(ratio, st) ==
    IF RatioGt(ratio, 2)
    THEN [signals |-> Append(st.signals, SIG_VOL), score |-> st.score + 1]
    ELSE st

\* lines 83-102: signals and score after the five rules, in source order
Rules(last_row, prev_row, ratio) ==
    VolumeStep(ratio,
        SmaStep(last_row, prev_row,
            BollingerStep(last_row,
                MacdStep(last_row, prev_row,
                    RsiStep(last_row, [signals |-> <<>>, score |-> 0])))))

MIN_SCORE == 2
MIN_BARS == 50
SMA_LONG_WINDOW == 50

\* line 103: if signals and score >= 2 (variant: any signal is enough)
Emits_any_signal(st) == st.signals # <<>>
Emits(st) == st.signals # <<>> /\ st.score >= MIN_SCORE

\* analyze_stock(df, symbol); raises: an exception is thrown inside the try
\* block (reading the rows, line 82).  The record holds the return value, the
\* locals at the return and the function that logged an error, if any.
analyze_stock(d, symbol, raises) ==
    IF d = None \/ d.len < MIN_BARS
    THEN [ret |-> None, signals |-> <<>>, score |-> 0, vol_ratio |-> NoRatio,
          logged |-> ""]
    ELSE IF raises
    THEN [ret |-> None, signals |-> <<>>, score |-> 0, vol_ratio |-> NoRatio,
          logged |-> "analyze_stock"]
    ELSE LET last_row == d.last_row
             prev_row == d.prev_row
             ratio == FDiv(last_row.Volume, last_row.Volume_SMA)
             st == Rules(last_row, prev_row, ratio)
         IN  [ret |-> IF Emits(st)
                      THEN [isNone |-> FALSE,
                            symbol |-> symbol,
                            signals |-> st.signals,
                            score |-> st.score,
                            current_price |-> last_row.Close,
                            rsi |-> last_row.RSI,
                            volume_ratio |-> ratio,
                            trend_20d |-> last_row.Trend_20]
                      ELSE None,
              signals |-> st.signals, score |-> st.score, vol_ratio |-> ratio,
              logged |-> ""]

\* an exception that leaves a function; a future holds it and
\* future.result() re-raises it
Raised == [isNone |-> FALSE, exception |-> TRUE]

\* process_stock(symbol) against one environment e = [fetch, ind, raises]
\* (variant: an error of the data source is not caught)
process_stock_uncaught(symbol, e) ==
    IF e.fetch.raises THEN Raised
    ELSE LET d == get_stock_data(e.fetch).ret
         IN  IF d # None
             THEN analyze_stock(calculate_technical_indicators(d, e.ind).ret,
                                symbol, e.raises).ret
             ELSE None
process_stock(symbol, e) ==
    LET d == get_stock_data(e.fetch).ret
    IN  IF d # None
        THEN analyze_stock(calculate_technical_indicators(d, e.ind).ret,
                           symbol, e.raises).ret
        ELSE None

-----------------------------------------------------------------------------
(* The answers of the collaborators: the data source and the indicator      *)
(* library.                                                                 *)

BarCounts == {15, 19, 20, 49, 50, 51}
FetchResponses ==
    {[raises |-> TRUE, bars |-> 0, missing |-> 0]}
    \cup [raises : {FALSE}, bars : BarCounts, missing : 0..MaxMissing]

RSIVals == {NaN} \cup {Num(v) : v \in {19, 20, 30, 31, 40, 41}}
Levels == {Num(v) : v \in 0..MaxLevel}

\* line 69: a 50-period rolling mean is NaN until 50 bars are in the window
Sma50At(len, row) == IF len - row >= SMA_LONG_WINDOW THEN Num(1) ELSE NaN

\* line 70: the mean of 20 volumes >= 0, the last bar's among them, is zero
\* only when that volume is zero
VolumePairs ==
    {p \in [Volume : 0..MaxVolume, Volume_SMA : {0, 1}] :
        p.Volume_SMA = 0 => p.Volume = 0}

LastRows(len) ==
    {[RSI |-> r, MACD |-> m, MACD_Signal |-> Num(1), Close |-> c,
      BB_Low |-> Num(1), SMA_20 |-> s, SMA_50 |-> Sma50At(len, 0),
      Volume |-> Num(v.Volume), Volume_SMA |-> Num(v.Volume_SMA),
      Trend_20 |-> Num(0)] :
        r \in RSIVals, m \in Levels, c \in Levels, s \in Levels,
        v \in VolumePairs}
PrevRows(len) ==
    {[MACD |-> m, MACD_Signal |-> Num(1), SMA_20 |-> s,
      SMA_50 |-> Sma50At(len, 1)] : m \in Levels, s \in Levels}

NoRow == [RSI |-> NaN]
IndicatorOutcomes(len) ==
    {[raises |-> TRUE, last_row |-> NoRow, prev_row |-> NoRow]}
    \cup [raises : {FALSE}, last_row : LastRows(len), prev_row : PrevRows(len)]

-----------------------------------------------------------------------------
(* Idle values of the variables a specification does not use.               *)

NoInput == [raises |-> FALSE]
\* logger.error appends to the log
Log(l, who) == IF who = "" THEN l ELSE Append(l, who)
CleanIdle == raw = PyNone /\ cleaned = PyNone /\ npc = "idle"
TickersIdle ==
    listing = NoInput /\ tickers = EmptyBag /\ tlogged = <<>> /\ tpc = "idle"
StockIdle ==
    /\ pc = "idle" /\ inp = NoInput /\ df = None /\ signals = <<>>
    /\ score = 0 /\ vol_ratio = NoRatio /\ result = None /\ logged = <<>>
    /\ calls = <<>>
ScanIdle ==
    /\ symbols = <<>> /\ mainpc = "idle" /\ futures = <<>>
    /\ finished = {} /\ waiterQ = <<>> /\ completion = <<>>
    /\ collected = <<>> /\ opportunities = <<>>

-----------------------------------------------------------------------------
(* process_stock(symbol) for one symbol, one stage per step.                *)

Sym == reliable_symbols[1]

StockInit ==
    /\ pc = "get_stock_data" /\ inp = NoInput /\ df = None /\ signals = <<>>
    /\ score = 0 /\ vol_ratio = NoRatio /\ result = None /\ logged = <<>>
    /\ calls = <<>>
    /\ CleanIdle /\ TickersIdle /\ ScanIdle

\* line 131: df = get_stock_data(symbol); line 132 returns None without it
Fetch ==
    /\ pc = "get_stock_data"
    /\ \E resp \in FetchResponses :
        LET r == get_stock_data(resp)
        IN  /\ inp' = resp
            /\ df' = r.ret
            /\ logged' = Log(logged, r.logged)
            /\ pc' = IF r.ret # None THEN "calculate_technical_indicators"
                                     ELSE "done"
    /\ calls' = Append(calls, "get_stock_data")
    /\ UNCHANGED <<signals, score, vol_ratio, result, nvars, tvars, svars>>

\* line 133: df = calculate_technical_indicators(df)
Augment ==
    /\ pc = "calculate_technical_indicators"
    /\ \E ind \in IndicatorOutcomes(df.len) :
        LET r == calculate_technical_indicators(df, ind)
        IN  /\ inp' = ind
            /\ df' = r.ret
            /\ logged' = Log(logged, r.logged)
    /\ pc' = "analyze_stock"
    /\ calls' = Append(calls, "calculate_technical_indicators")
    /\ UNCHANGED <<signals, score, vol_ratio, result, nvars, tvars, svars>>

\* line 134: return analyze_stock(df, symbol)
Evaluate ==
    /\ pc = "analyze_stock"
    /\ \E raises \in BOOLEAN :
        LET r == analyze_stock(df, Sym, raises)
        IN  /\ inp' = [raises |-> raises]
            /\ result' = r.ret
            /\ signals' = r.signals
            /\ score' = r.score
            /\ vol_ratio' = r.vol_ratio
            /\ logged' = Log(logged, r.logged)
    /\ pc' = "done"
    /\ calls' = Append(calls, "analyze_stock")
    /\ UNCHANGED <<df, nvars, tvars, svars>>

StockNext == Fetch \/ Augment \/ Evaluate
SpecStock == StockInit /\ [][StockNext]_vars

-----------------------------------------------------------------------------
(* scan_market() and main(): the thread pool, as_completed, the sort.       *)

max_workers == 5

\* environments of a task: what the data source and the indicator library
\* answer for its symbol
RowsEnv(rsi, macd, close) ==
    [raises |-> FALSE,
     last_row |-> [RSI |-> Num(rsi), MACD |-> Num(macd), MACD_Signal |-> Num(1),
                   Close |-> Num(close), BB_Low |-> Num(1), SMA_20 |-> Num(1),
                   SMA_50 |-> Num(1), Volume |-> Num(1), Volume_SMA |-> Num(1),
                   Trend_20 |-> Num(0)],
     prev_row |-> [MACD |-> Num(1), MACD_Signal |-> Num(1), SMA_20 |-> Num(1),
                   SMA_50 |-> Num(1)]]
Fetched(bars, missing) == [raises |-> FALSE, bars |-> bars, missing |-> missing]
IndRaises == [raises |-> TRUE, last_row |-> NoRow, prev_row |-> NoRow]
ScanEnvs ==
    { \* the data source raises
      [fetch |-> [raises |-> TRUE, bars |-> 0, missing |-> 0],
       ind |-> IndRaises, raises |-> FALSE],
      \* RSI 25 and a MACD cross: score 5
      [fetch |-> Fetched(51, 0), ind |-> RowsEnv(25, 2, 1), raises |-> FALSE],
      \* close below the lower band: score 2
      [fetch |-> Fetched(51, 0), ind |-> RowsEnv(50, 1, 0), raises |-> FALSE],
      \* too few bars
      [fetch |-> Fetched(15, 0), ind |-> IndRaises, raises |-> FALSE],
      \* too many missing cells
      [fetch |-> Fetched(51, 6), ind |-> IndRaises, raises |-> FALSE],
      \* the indicator library raises
      [fetch |-> Fetched(51, 0), ind |-> IndRaises, raises |-> FALSE],
      \* an exception inside analyze_stock
      [fetch |-> Fetched(51, 0), ind |-> RowsEnv(25, 2, 1), raises |-> TRUE],
      \* RSI 35 alone: score 1, no Opportunity
      [fetch |-> Fetched(51, 0), ind |-> RowsEnv(35, 1, 1), raises |-> FALSE] }

Tasks == DOMAIN symbols
Running == {i \in Tasks : futures[i].state = "RUNNING"}

Init ==
    /\ \E n \in 0..MaxSymbols : symbols = [i \in 1..n |-> reliable_symbols[i]]
    /\ mainpc = "submit" /\ futures = <<>>
    /\ finished = {} /\ waiterQ = <<>> /\ completion = <<>>
    /\ collected = <<>> /\ opportunities = <<>>
    /\ CleanIdle /\ TickersIdle /\ StockIdle

\* line 123: every symbol is submitted to the executor
Submit ==
    /\ mainpc = "submit"
    /\ futures' = [i \in Tasks |-> [state |-> "PENDING", result |-> None]]
    /\ mainpc' = "as_completed"
    /\ UNCHANGED <<symbols, finished, waiterQ, completion, collected,
                   opportunities, nvars, tvars, pvars>>

\* a worker thread takes the oldest queued work item
Start(i) ==
    /\ i \in DOMAIN futures
    /\ futures[i].state = "PENDING"
    /\ \A j \in 1..(i - 1) : futures[j].state # "PENDING"
    /\ Cardinality(Running) < max_workers
    /\ futures' = [futures EXCEPT ![i].state = "RUNNING"]
    /\ UNCHANGED <<symbols, mainpc, finished, waiterQ, completion,
                   collected, opportunities, nvars, tvars, pvars>>

\* the worker finishes process_stock(symbol) and sets the future's result;
\* a waiter installed by as_completed is told, in completion order
Finish(i) ==
    /\ i \in DOMAIN futures
    /\ futures[i].state = "RUNNING"
    /\ \E e \in ScanEnvs :
        futures' = [futures EXCEPT ![i] =
                      [state |-> "FINISHED",
                       result |-> process_stock(symbols[i], e)]]
    /\ completion' = Append(completion, i)
    /\ waiterQ' = IF mainpc = "collect" THEN Append(waiterQ, i) ELSE waiterQ
    /\ UNCHANGED <<symbols, mainpc, finished, collected, opportunities,
                   nvars, tvars, pvars>>

\* line 124, first iteration: as_completed(futures) takes the futures that are
\* already finished into a set and installs its waiter on the others
BeginCollect ==
    /\ mainpc = "as_completed"
    /\ finished' = {i \in Tasks : futures[i].state = "FINISHED"}
    /\ mainpc' = "collect"
    /\ UNCHANGED <<symbols, futures, waiterQ, completion, collected,
                   opportunities, nvars, tvars, pvars>>

\* lines 125-127 for the future as_completed yields
\* (variant: the list is replaced instead of appended to)
Handle_overwrite(i) ==
    LET r == futures[i].result
    IN  /\ collected' = Append(collected, i)
        /\ mainpc' = mainpc
        /\ opportunities' = IF r # None THEN <<r>> ELSE opportunities
Handle(i) ==
    LET r == futures[i].result
    IN  /\ collected' = Append(collected, i)
        /\ IF r = Raised
           THEN /\ mainpc' = "raised"
                /\ UNCHANGED opportunities
           ELSE /\ mainpc' = mainpc
                /\ opportunities' = IF r # None THEN Append(opportunities, r)
                                                ELSE opportunities

\* as_completed yields the futures that were already finished first, in the
\* iteration order of a set
CollectFinished(i) ==
    /\ mainpc = "collect"
    /\ i \in finished \ Range(collected)
    /\ Handle(i)
    /\ UNCHANGED <<symbols, futures, finished, waiterQ, completion, nvars,
                   tvars, pvars>>

\* then the others, in the order in which they told the waiter
CollectCompleted ==
    /\ mainpc = "collect"
    /\ finished \subseteq Range(collected)
    /\ waiterQ # <<>>
    /\ waiterQ' = Tail(waiterQ)
    /\ Handle(Head(waiterQ))
    /\ UNCHANGED <<symbols, futures, finished, completion, nvars, tvars,
                   pvars>>

\* list.sort(key=score, reverse=True): stable, equal scores keep their order
\* (variant: an element is put before its equals)
RECURSIVE InsertByScore_unstable(_, _)
InsertByScore_unstable(sorted, x) ==
    IF sorted = <<>> THEN <<x>>
    ELSE IF Head(sorted).score > x.score
         THEN <<Head(sorted)>> \o InsertByScore_unstable(Tail(sorted), x)
         ELSE <<x>> \o sorted
RECURSIVE InsertByScore(_, _)
InsertByScore(sorted, x) ==
    IF sorted = <<>> THEN <<x>>
    ELSE IF Head(sorted).score >= x.score
         THEN <<Head(sorted)>> \o InsertByScore(Tail(sorted), x)
         ELSE <<x>> \o sorted
RECURSIVE SortByScore(_)
SortByScore(list) ==
    IF list = <<>> THEN <<>>
    ELSE InsertByScore(SortByScore(SubSeq(list, 1, Len(list) - 1)),
                       list[Len(list)])

\* lines 128, 137-140: every future was yielded; scan_market returns and main
\* sorts the list in place and prints it
SortOutput ==
    /\ mainpc = "collect"
    /\ Len(collected) = Len(symbols)
    /\ opportunities' = SortByScore(opportunities)
    /\ mainpc' = "done"
    /\ UNCHANGED <<symbols, futures, finished, waiterQ, completion,
                   collected, nvars, tvars, pvars>>

Next ==
    \/ Submit
    \/ \E i \in Tasks : Start(i)
    \/ \E i \in Tasks : Finish(i)
    \/ BeginCollect
    \/ \E i \in Tasks : CollectFinished(i)
    \/ CollectCompleted
    \/ SortOutput
Spec == Init /\ [][Next]_vars

-----------------------------------------------------------------------------
(* clean_symbol(raw) on every raw ticker of at most MaxLen characters.      *)

Chars == {"A", "W", "U", "a", "1", "$", ".", "^", " "}
RawStrings == UNION {[1..n -> Chars] : n \in 0..MaxLen}

CleanInit ==
    /\ raw \in {PyStr(s) : s \in RawStrings} \cup {PyNaN}
    /\ cleaned = PyNone /\ npc = "clean_symbol"
    /\ TickersIdle /\ StockIdle /\ ScanIdle

Clean ==
    /\ npc = "clean_symbol"
    /\ cleaned' = clean_symbol(raw)
    /\ npc' = "done"
    /\ UNCHANGED <<raw, tvars, pvars, svars>>

CleanNext == Clean
SpecClean == CleanInit /\ [][CleanNext]_vars

-----------------------------------------------------------------------------
(* get_all_tickers() against every answer of the listing source.            *)

Str_aapl == PyStr(<<"a", "a", "p", "l">>)
Str_AAPL_padded == PyStr(<<" ", "A", "A", "P", "L", " ">>)
Str_ZTS == PyStr(<<"Z", "T", "S">>)
Str_BRK_B == PyStr(<<"B", "R", "K", ".", "B">>)
Str_SNOW == PyStr(<<"S", "N", "O", "W">>)
Str_empty == PyStr(<<>>)
Str_blank == PyStr(<<" ">>)
RawPool == {Str_aapl, Str_AAPL_padded, Str_ZTS, Str_BRK_B, Str_SNOW, Str_empty,
            Str_blank, PyStr(<<"K", "O">>), PyNaN}

ListingResponses ==
    {[raises |-> TRUE, symbols |-> <<>>]}
    \cup {[raises |-> FALSE, symbols |-> l] :
            l \in UNION {[1..n -> RawPool] : n \in 0..MaxList}}

TickersInit ==
    /\ listing \in ListingResponses
    /\ tickers = EmptyBag /\ tlogged = <<>> /\ tpc = "get_all_tickers"
    /\ CleanIdle /\ StockIdle /\ ScanIdle

Resolve ==
    /\ tpc = "get_all_tickers"
    /\ tickers' = get_all_tickers(listing).ret
    /\ tlogged' = Log(tlogged, get_all_tickers(listing).logged)
    /\ tpc' = "done"
    /\ UNCHANGED <<listing, nvars, pvars, svars>>

TickersNext == Resolve
SpecTickers == TickersInit /\ [][TickersNext]_vars

-----------------------------------------------------------------------------
(* Properties of clean_symbol.                                              *)

\* the exclusion patterns as the specification words them
Excluded(t) ==
    \/ \E i \in 1..Len(t) : t[i] \in {"$", ".", "^"}
    \/ \E suf \in {<<".", "W">>, <<".", "U">>, <<".", "W", "S">>,
                   <<".", "R", "T">>, <<".", "P", "W">>} : EndsWith(t, suf)
    \/ Len(t) >= 1 /\ t[Len(t)] \in Digits
    \/ Len(t) >= 2 /\ t[Len(t)] = "W" /\ t[Len(t) - 1] \in UpperLetters

\* C7: a raw string whose trimmed, uppercased form matches an exclusion
\* pattern normalises to invalid (None); every other string normalises to its
\* trimmed, uppercased form.
C7_NormalizeIsUnionOfExclusions ==
    (npc = "done" /\ raw.type = "str") =>
        LET t == Upper(Strip(raw.s))
        IN  cleaned = IF Excluded(t) THEN PyNone ELSE PyStr(t)

\* " aW" is trimmed and uppercased to "AW", which ends in letter + W
C7_Witness ==
    /\ npc = "done"
    /\ raw = PyStr(<<" ", "a", "W">>)
    /\ cleaned = PyNone

-----------------------------------------------------------------------------
(* Properties of get_all_tickers.                                           *)

IsValidSymbol(s) == s # <<>> /\ Upper(s) = s /\ ~Excluded(s)
SeedBag ==
    [s \in {x \in Range(reliable_symbols) : IsValidSymbol(x)} |-> 1]

\* C8: whatever the listing source returns, the resolved universe holds only
\* valid Symbols and holds no Symbol more than once.
C8_UniverseValidAndUnique ==
    tpc = "done" =>
        \A s \in DOMAIN tickers : IsValidSymbol(s) /\ tickers[s] = 1

\* C9 as stated: when the listing source fails, the failure is logged and
\* the resolved universe is the set of valid seed symbols.
C9_SeedListSurvivesFailure ==
    (tpc = "done" /\ listing.raises) =>
        tickers = SeedBag /\ tlogged = <<"get_all_tickers">>

\* C9 as amended: when the listing source fails, the failure is logged and the
\* resolved universe is empty, the seed list included; the seed symbols are
\* in the universe whenever the listing source answers.
C9_FailureEmptiesUniverse ==
    tpc = "done" =>
        /\ listing.raises =>
              tickers = EmptyBag /\ tlogged = <<"get_all_tickers">>
        /\ ~listing.raises =>
              /\ tlogged = <<>>
              /\ \A s \in DOMAIN SeedBag : s \in DOMAIN tickers

C9_Witness ==
    /\ tpc = "done"
    /\ listing.raises
    /\ tickers = EmptyBag
    /\ tlogged = <<"get_all_tickers">>

-----------------------------------------------------------------------------
(* Properties of the per-symbol pipeline.                                   *)

FetchReturned == calls = <<"get_stock_data">>
Evaluated ==
    /\ pc = "done"
    /\ Len(calls) = 3
    /\ df # None
    /\ df.len >= 50
EvaluatedNormally == Evaluated /\ ~inp.raises

\* the rule table of the specification, over the current and previous bar
InBand(x, lo, hi, loClosed) ==
    /\ ~x.nan
    /\ IF loClosed THEN lo <= x.v ELSE lo < x.v
    /\ x.v <= hi
CrossesAbove(currA, currB, prevA, prevB) ==
    /\ ~currA.nan /\ ~currB.nan /\ currA.v > currB.v
    /\ ~prevA.nan /\ ~prevB.nan /\ prevA.v <= prevB.v
RuleTable(curr, prev) ==
    << [fired |-> InBand(curr.RSI, 20, 30, TRUE),
        text |-> SIG_RSI_OVERSOLD, weight |-> 3],
       [fired |-> InBand(curr.RSI, 30, 40, FALSE),
        text |-> SIG_RSI_NEAR, weight |-> 1],
       [fired |-> CrossesAbove(curr.MACD, curr.MACD_Signal,
                               prev.MACD, prev.MACD_Signal),
        text |-> SIG_MACD, weight |-> 2],
       [fired |-> ~curr.Close.nan /\ ~curr.BB_Low.nan
                  /\ curr.Close.v < curr.BB_Low.v,
        text |-> SIG_BB, weight |-> 2],
       [fired |-> CrossesAbove(curr.SMA_20, curr.SMA_50,
                               prev.SMA_20, prev.SMA_50),
        text |-> SIG_SMA, weight |-> 2],
       [fired |-> ~curr.Volume.nan /\ ~curr.Volume_SMA.nan
                  /\ curr.Volume_SMA.v > 0
                  /\ curr.Volume.v > 2 * curr.Volume_SMA.v,
        text |-> SIG_VOL, weight |-> 1] >>
IsFired(rule) == rule.fired
RECURSIVE SumWeights(_)
SumWeights(rules) ==
    IF rules = <<>> THEN 0 ELSE Head(rules).weight + SumWeights(Tail(rules))
TableFired == SelectSeq(RuleTable(df.last_row, df.prev_row), IsFired)
TableSignals == [k \in DOMAIN TableFired |-> TableFired[k].text]
TableScore == SumWeights(TableFired)

\* C4: for a frame of at least 50 bars, the score and the ordered signal list
\* that analyze_stock computes are those of the rule table: the fired rules'
\* texts in table order, the sum of their weights, at most one RSI band, and
\* a score within 0..10.
C4_ScoreFollowsRuleTable ==
    EvaluatedNormally =>
        /\ signals = TableSignals
        /\ score = TableScore
        /\ score \in 0..10
        /\ ~(\E i, j \in DOMAIN signals :
                signals[i] = SIG_RSI_OVERSOLD /\ signals[j] = SIG_RSI_NEAR)

\* every rule but the lesser RSI band fires: 3 + 2 + 2 + 2 + 1
C4_Witness ==
    /\ EvaluatedNormally
    /\ score = 10
    /\ signals = <<SIG_RSI_OVERSOLD, SIG_MACD, SIG_BB, SIG_SMA, SIG_VOL>>

\* C5: an Opportunity has a non-empty signal list and a score of at least 2
\* and comes from a frame of at least 50 bars; a missing frame, a frame of
\* fewer than 50 bars, no fired signal or a score below 2 give None.
C5_OpportunityThreshold ==
    (pc = "done" /\ Len(calls) = 3) =>
        /\ result # None =>
              /\ result.signals # <<>>
              /\ result.score >= 2
              /\ result.signals = signals /\ result.score = score
              /\ df # None /\ df.len >= 50
        /\ (df = None \/ df.len < 50 \/ signals = <<>> \/ score < 2) =>
              result = None

\* the lesser RSI band or the volume spike alone: one signal, score 1, None
C5_Witness ==
    /\ Evaluated
    /\ signals # <<>>
    /\ score = 1
    /\ result = None

\* C6: get_stock_data returns None exactly when the source raises, the series
\* has fewer than 20 bars or more than 10% of the 5 * bars required fields are
\* missing, and returns the series otherwise; a symbol without data is passed
\* to neither of the later stages.
C6_FetchRejectsOverTenPercentOfFields ==
    FetchReturned =>
        /\ df = None <=> \/ inp.raises
                         \/ inp.bars < 20
                         \/ inp.missing * 10 > 5 * inp.bars
        /\ df # None => df.len = inp.bars
        /\ df = None => pc = "done" /\ result = None

\* C10: a frame of at least 50 bars whose volume average is zero gives None,
\* with the error logged, and no Opportunity has an undefined or infinite
\* volume_ratio.
C10_ZeroVolumeAverageGivesNone ==
    /\ (EvaluatedNormally /\ df.last_row.Volume_SMA = Num(0)) =>
          result = None /\ "analyze_stock" \in Range(logged)
    /\ (pc = "done" /\ result # None) => result.volume_ratio.kind = "num"

-----------------------------------------------------------------------------
(* Properties of the scan.                                                  *)

PosIn(seq, x) == CHOOSE k \in DOMAIN seq : seq[k] = x
\* the task that produced an Opportunity (the symbols of a scan are distinct)
TaskOf(o) == CHOOSE i \in Tasks : symbols[i] = o.symbol
Produced == {i \in Tasks : futures[i].result # None}
BagOfSeq(seq) ==
    [x \in Range(seq) |-> Cardinality({k \in DOMAIN seq : seq[k] = x})]
ProducedBag ==
    [r \in {futures[i].result : i \in Produced} |->
        Cardinality({i \in Produced : futures[i].result = r})]
IsHandled(i) == futures[i].result # None
\* the results of the futures yielded so far, in the order they were yielded
HandledResults ==
    LET kept == SelectSeq(collected, IsHandled)
    IN  [k \in DOMAIN kept |-> futures[kept[k]].result]
SortedDescending(list) ==
    \A k \in 1..(Len(list) - 1) : list[k].score >= list[k + 1].score
\* the scores of the produced Opportunities, from MaxScore down, whatever the
\* order of the tasks
RECURSIVE ScoresFrom(_)
ScoresFrom(s) ==
    IF s < 0 THEN <<>>
    ELSE [k \in 1..Cardinality({i \in Produced : futures[i].result.score = s})
            |-> s] \o ScoresFrom(s - 1)

\* C1 as stated: the output is sorted by descending score and Opportunities of
\* equal score are in the order in which their tasks completed.
C1_TiesInCompletionOrder ==
    mainpc = "done" =>
        /\ SortedDescending(opportunities)
        /\ \A a, b \in DOMAIN opportunities :
              (a < b /\ opportunities[a].score = opportunities[b].score) =>
                  PosIn(completion, TaskOf(opportunities[a]))
                      < PosIn(completion, TaskOf(opportunities[b]))

\* C1 as amended: the output is sorted by descending score and Opportunities
\* of equal score are in the order in which as_completed yielded their
\* futures, which is the order they were appended to the list; two futures
\* are yielded against their completion order only if both had finished
\* before as_completed was entered.
C1_TiesInCollectionOrder ==
    /\ \A i, j \in Range(collected) :
          (/\ PosIn(collected, i) < PosIn(collected, j)
           /\ PosIn(completion, j) < PosIn(completion, i)) =>
              {i, j} \subseteq finished
    /\ mainpc = "done" =>
          /\ SortedDescending(opportunities)
          /\ \A a, b \in DOMAIN opportunities :
                (a < b /\ opportunities[a].score = opportunities[b].score) =>
                    PosIn(collected, TaskOf(opportunities[a]))
                        < PosIn(collected, TaskOf(opportunities[b]))

\* three symbols: the first scores 5, the other two score 2 and are listed in
\* the order they were yielded, which is not the order they completed in
C1_Witness ==
    /\ mainpc = "done"
    /\ Len(opportunities) = 3
    /\ opportunities[1].score = 5
    /\ opportunities[2].score = 2 /\ opportunities[3].score = 2
    /\ PosIn(collected, TaskOf(opportunities[2]))
          < PosIn(collected, TaskOf(opportunities[3]))
    /\ PosIn(completion, TaskOf(opportunities[3]))
          < PosIn(completion, TaskOf(opportunities[2]))

\* C2: whatever fails for whichever symbols, no exception leaves the scan, and
\* the output holds the Opportunity of every symbol whose pipeline gave one
\* and nothing for a symbol whose pipeline gave None.
C2_FailuresAreIsolated ==
    /\ mainpc # "raised"
    /\ \A i \in DOMAIN futures : futures[i].result # Raised
    /\ mainpc \in {"collect", "done"} =>
          \A i \in Range(collected) :
              futures[i].result # None =>
                  futures[i].result \in Range(opportunities)
    /\ mainpc = "done" =>
          Range(opportunities) = {futures[i].result : i \in Produced}

\* the first task to complete gave None, a later one gave an Opportunity,
\* which is in the output
C2_Witness ==
    /\ mainpc = "done"
    /\ Len(symbols) = 3
    /\ futures[completion[1]].result = None
    /\ \E i \in Produced : futures[i].result \in Range(opportunities)

\* C3: whatever the interleaving of the workers, the output is the bag of the
\* tasks' results and its scores are those results' scores in descending
\* order; the collection step yields no future twice and appends each result
\* once, in the order it was yielded.
C3_OutputIndependentOfInterleaving ==
    /\ Cardinality(Range(collected)) = Len(collected)
    /\ mainpc = "collect" => opportunities = HandledResults
    /\ mainpc = "done" =>
          /\ Len(collected) = Len(symbols)
          /\ BagOfSeq(opportunities) = ProducedBag
          /\ [k \in DOMAIN opportunities |-> opportunities[k].score]
                = ScoresFrom(10)

\* three Opportunities whose tasks did not complete in submission order
C3_Witness ==
    /\ mainpc = "done"
    /\ Len(opportunities) = 3
    /\ completion = <<3, 1, 2>>
    /\ collected = <<1, 3, 2>>

=============================================================================
